---- MODULE Spec2Model ----
(***************************************************************************)
(* A model of the IntakeQ MCP server: the tool-call dispatcher             *)
(* (server.py, IntakeQMCPServer.route_tool_call / handle_call_tool) and    *)
(* the five resource handlers (handlers/*.py) that translate an argument   *)
(* bag into one upstream HTTP request and an upstream response into a      *)
(* returned value or a raised exception.                                   *)
(*                                                                         *)
(* Python values are pairs <<type, text>> of strings, so that values of    *)
(* different Python types can be compared.  A dict is a function whose     *)
(* DOMAIN is the set of keys present.  A formatted string (an f-string) is *)
(* the sequence of its pieces.                                             *)
(***************************************************************************)
EXTENDS Integers, Sequences, FiniteSets, TLC

VARIABLES
    pc,         \* where the call is: "idle", "awaiting" (the upstream), "done"
    call,       \* the call: its facade, tool or method name, credential, arguments
    op,         \* the handler method whose request is out ("" when none)
    requests,   \* the upstream requests the call has issued
    responses,  \* the upstream responses the call has received
    outcome,    \* what route_tool_call / the handler returned or raised
    reply,      \* the text handle_call_tool returns (tool facade only)
    config,     \* the running program and web_server.py's two environment settings
    credentials, \* the bearer credential of the HTTP request (None when none)
    http,       \* the HTTP response of web_server.py (HTTP facade only)
    session,    \* the aiohttp sessions: opened by the call, and open now
    log,        \* the messages web_server.py has logged: at startup, and for the call
    twin,       \* the run of web_server.py that differs in the value of the API key only
    env,        \* config.py: os.environ, the variables that are set
    cm,         \* config.py: config_manager._config, and whether logging has handlers
    hist,       \* config.py: the loads and accesses since the last reload (or the start)
    calls,      \* concurrent handler calls: each slot's call, request, response, outcome
    objects     \* the handler objects shared by the concurrent calls: their base_url

\* The variables of the calls
callvars == <<pc, call, op, requests, responses, outcome, reply, config, credentials,
              http, session, log, twin>>

\* The variables of the configuration manager
cfgvars == <<env, cm, hist>>

\* The variables of the concurrent calls
concvars == <<calls, objects>>

vars == <<callvars, cfgvars, concvars>>

(***************************************************************************)
(* Python values                                                           *)
(***************************************************************************)
None == <<"none", "None">>

StrV(s) == <<"str", s>>

IntV(s) == <<"int", s>>

BoolV(s) == <<"bool", s>>

ObjV(s) == <<"obj", s>>

EmptyDict == [k \in {} |-> None]

\* d[k] = v added to (or overwritten in) dict d
DictSet(d, k, v) == [x \in DOMAIN d \cup {k} |-> IF x = k THEN v ELSE d[x]]

\* del d[k]
DictDel(d, k) == [x \in DOMAIN d \ {k} |-> d[x]]

\* d.get(k): None when the key is absent
Get(d, k) == IF k \in DOMAIN d THEN d[k] ELSE None

\* d.get(k, default)
GetDefault(d, k, default) == IF k \in DOMAIN d THEN d[k] ELSE default

\* Python truth value, as tested by "if params.get(k):" and "if not api_key:"
Truthy(v) ==
    CASE v[1] = "none" -> FALSE
      [] v[1] = "str"  -> v[2] # ""
      [] v[1] = "int"  -> v[2] # "0"
      [] v[1] = "bool" -> v[2] = "True"
      [] v[1] = "obj"  -> v[2] # "{}"
      [] OTHER -> FALSE

\* Python str(v), also the text an f-string puts for {v}
Str(v) == v[2]

\* str.lower() on the strings of the model
Lower(s) ==
    CASE s = "True" -> "true"
      [] s = "False" -> "false"
      [] s = "None" -> "none"
      [] s = "Jane Doe" -> "jane doe"
      [] s = "Confirmed" -> "confirmed"
      [] OTHER -> s

(***************************************************************************)
(* Results of a step of a call: an exception raised, or a request sent.    *)
(***************************************************************************)
base_url == "https://intakeq.com/api/v1"

NoRequest ==
    [method |-> "", url |-> <<>>, headers |-> EmptyDict, params |-> EmptyDict,
     hasJson |-> FALSE, json |-> EmptyDict]

Raise(exc, msg) ==
    [raised |-> TRUE, exc |-> exc, msg |-> msg, op |-> "", request |-> NoRequest]

Send(o, method, url, headers, params, hasJson, json) ==
    [raised |-> FALSE, exc |-> "", msg |-> <<>>, op |-> o,
     request |-> [method |-> method, url |-> url, headers |-> headers,
                  params |-> params, hasJson |-> hasJson, json |-> json]]

\* headers = {'X-Auth-Key': api_key}
AuthHeaders(api_key) == DictSet(EmptyDict, "X-Auth-Key", api_key)

\* A mutant of JsonHeaders: the content type is left out.
JsonHeadersNoContentType(api_key) == AuthHeaders(api_key)

\* headers = {'X-Auth-Key': api_key, 'Content-Type': 'application/json'}
JsonHeaders(api_key) ==
    DictSet(AuthHeaders(api_key), "Content-Type", StrV("application/json"))

\* A mutant of BuildQuery: every entry of params that is set goes into the
\* query string.
BuildQueryAll(params, plain, bools) ==
    [k \in {x \in DOMAIN params : Truthy(params[x])} |->
        IF k \in bools THEN StrV(Lower(Str(params[k]))) ELSE params[k]]

\* The "if params.get(k): query_params[k] = params[k]" chain of a list
\* operation; the keys in bools get str(params[k]).lower().
BuildQuery(params, plain, bools) ==
    [k \in {x \in plain \cup bools : Truthy(Get(params, x))} |->
        IF k \in bools THEN StrV(Lower(Str(params[k]))) ELSE params[k]]

(***************************************************************************)
(* handlers/appointments.py                                                *)
(***************************************************************************)
get_appointments(api_key, params) ==
    Send("get_appointments", "GET", <<base_url, "/appointments">>,
         AuthHeaders(api_key),
         BuildQuery(params,
                    {"client", "startDate", "endDate", "status",
                     "practitionerEmail", "page", "updatedSince"},
                    {"deletedOnly"}),
         FALSE, EmptyDict)

get_appointment(api_key, appointment_id) ==
    Send("get_appointment", "GET",
         <<base_url, "/appointments/", Str(appointment_id)>>,
         AuthHeaders(api_key), EmptyDict, FALSE, EmptyDict)

\* A mutant of create_appointment_required: ServiceId is not tested.
create_appointment_required_no_service ==
    <<"PractitionerId", "ClientId", "LocationId", "Status", "UtcDateTime">>

\* required_fields of create_appointment, in the order the loop tests them
create_appointment_required ==
    <<"PractitionerId", "ClientId", "ServiceId", "LocationId", "Status",
      "UtcDateTime">>

\* The fields of required (a sequence) that test(data, field) finds missing,
\* in order.
MissingFields(data, required) ==
    SelectSeq(required, LAMBDA f : f \notin DOMAIN data)

create_appointment(api_key, appointment_data) ==
    LET missing == MissingFields(appointment_data, create_appointment_required)
    IN  IF missing # <<>>
        THEN Raise("ValueError", <<"Missing required field: ", Head(missing)>>)
        ELSE Send("create_appointment", "POST", <<base_url, "/appointments">>,
                  JsonHeaders(api_key), EmptyDict, TRUE, appointment_data)

update_appointment(api_key, appointment_data) ==
    IF "Id" \notin DOMAIN appointment_data
       \/ "UtcDateTime" \notin DOMAIN appointment_data
    THEN Raise("ValueError", <<"Missing required fields: ", "Id", " and ", "UtcDateTime">>)
    ELSE Send("update_appointment", "PUT", <<base_url, "/appointments">>,
              JsonHeaders(api_key), EmptyDict, TRUE, appointment_data)

\* A mutant of cancel_appointment: Reason is sent whatever the reason is.
cancel_appointment_always_reason(api_key, appointment_id, reason) ==
    Send("cancel_appointment", "POST",
         <<base_url, "/appointments/cancellation">>,
         JsonHeaders(api_key), EmptyDict, TRUE,
         DictSet(DictSet(EmptyDict, "AppointmentId", appointment_id), "Reason", reason))

cancel_appointment(api_key, appointment_id, reason) ==
    LET data == DictSet(EmptyDict, "AppointmentId", appointment_id)
    IN  Send("cancel_appointment", "POST",
             <<base_url, "/appointments/cancellation">>,
             JsonHeaders(api_key), EmptyDict, TRUE,
             IF Truthy(reason) THEN DictSet(data, "Reason", reason) ELSE data)

get_booking_settings(api_key) ==
    Send("get_booking_settings", "GET", <<base_url, "/appointments/settings">>,
         AuthHeaders(api_key), EmptyDict, FALSE, EmptyDict)

(***************************************************************************)
(* handlers/clients.py                                                     *)
(***************************************************************************)
get_clients(api_key, params) ==
    Send("get_clients", "GET", <<base_url, "/clients">>,
         AuthHeaders(api_key),
         BuildQuery(params,
                    {"search", "page", "dateCreatedStart", "dateCreatedEnd",
                     "dateUpdatedStart", "dateUpdatedEnd", "externalClientId"},
                    {"includeProfile", "deletedOnly"}),
         FALSE, EmptyDict)

create_or_update_client(api_key, client_data) ==
    Send("create_or_update_client", "POST", <<base_url, "/clients">>,
         JsonHeaders(api_key), EmptyDict, TRUE, client_data)

add_client_tag(api_key, client_id, tag) ==
    Send("add_client_tag", "POST", <<base_url, "/clientTags">>,
         JsonHeaders(api_key), EmptyDict, TRUE,
         DictSet(DictSet(EmptyDict, "ClientId", client_id), "Tag", tag))

remove_client_tag(api_key, client_id, tag) ==
    Send("remove_client_tag", "DELETE", <<base_url, "/clientTags">>,
         AuthHeaders(api_key),
         DictSet(DictSet(EmptyDict, "clientId", client_id), "tag", tag),
         FALSE, EmptyDict)

get_client_diagnoses(api_key, client_id) ==
    Send("get_client_diagnoses", "GET",
         <<base_url, "/client/", Str(client_id), "/diagnoses">>,
         AuthHeaders(api_key), EmptyDict, FALSE, EmptyDict)

(***************************************************************************)
(* handlers/invoices.py                                                    *)
(***************************************************************************)
get_invoices(api_key, params) ==
    Send("get_invoices", "GET", <<base_url, "/invoices">>,
         AuthHeaders(api_key),
         BuildQuery(params,
                    {"clientId", "startDate", "endDate", "status",
                     "practitionerEmail", "number", "page",
                     "lastUpdatedStartDate", "lastUpdatedEndDate"},
                    {}),
         FALSE, EmptyDict)

get_invoice(api_key, invoice_id) ==
    Send("get_invoice", "GET", <<base_url, "/invoices/", Str(invoice_id)>>,
         AuthHeaders(api_key), EmptyDict, FALSE, EmptyDict)

(***************************************************************************)
(* handlers/notes.py                                                       *)
(***************************************************************************)
get_notes_summary(api_key, params) ==
    Send("get_notes_summary", "GET", <<base_url, "/notes/summary">>,
         AuthHeaders(api_key),
         BuildQuery(params,
                    {"client", "clientId", "status", "startDate", "endDate",
                     "page", "updatedSince"},
                    {"deletedOnly"}),
         FALSE, EmptyDict)

get_note(api_key, note_id) ==
    Send("get_note", "GET", <<base_url, "/notes/", Str(note_id)>>,
         AuthHeaders(api_key), EmptyDict, FALSE, EmptyDict)

get_note_pdf(api_key, note_id) ==
    Send("get_note_pdf", "GET", <<base_url, "/notes/", Str(note_id), "/pdf">>,
         AuthHeaders(api_key), EmptyDict, FALSE, EmptyDict)

(***************************************************************************)
(* handlers/questionnaires.py                                              *)
(***************************************************************************)
get_intakes_summary(api_key, params) ==
    Send("get_intakes_summary", "GET", <<base_url, "/intakes/summary">>,
         AuthHeaders(api_key),
         BuildQuery(params,
                    {"client", "startDate", "endDate", "page", "clientId",
                     "externalClientId", "updatedSince"},
                    {"all", "deletedOnly"}),
         FALSE, EmptyDict)

get_intake(api_key, intake_id) ==
    Send("get_intake", "GET", <<base_url, "/intakes/", Str(intake_id)>>,
         AuthHeaders(api_key), EmptyDict, FALSE, EmptyDict)

send_questionnaire(api_key, questionnaire_data) ==
    IF "QuestionnaireId" \notin DOMAIN questionnaire_data
    THEN Raise("ValueError", <<"Missing required field: ", "QuestionnaireId">>)
    ELSE Send("send_questionnaire", "POST", <<base_url, "/intakes/send">>,
              JsonHeaders(api_key), EmptyDict, TRUE, questionnaire_data)

resend_questionnaire(api_key, resend_data) ==
    IF "IntakeId" \notin DOMAIN resend_data
    THEN Raise("ValueError", <<"Missing required field: ", "IntakeId">>)
    ELSE Send("resend_questionnaire", "POST", <<base_url, "/intakes/resend">>,
              JsonHeaders(api_key), EmptyDict, TRUE, resend_data)

get_questionnaire_templates(api_key) ==
    Send("get_questionnaire_templates", "GET", <<base_url, "/questionnaires">>,
         AuthHeaders(api_key), EmptyDict, FALSE, EmptyDict)

get_practitioners(api_key) ==
    Send("get_practitioners", "GET", <<base_url, "/practitioners">>,
         AuthHeaders(api_key), EmptyDict, FALSE, EmptyDict)

get_intake_pdf(api_key, intake_id) ==
    Send("get_intake_pdf", "GET",
         <<base_url, "/intakes/", Str(intake_id), "/pdf">>,
         AuthHeaders(api_key), EmptyDict, FALSE, EmptyDict)

update_office_use_questions(api_key, intake_data) ==
    Send("update_office_use_questions", "POST", <<base_url, "/intakes">>,
         JsonHeaders(api_key), EmptyDict, TRUE, intake_data)

(***************************************************************************)
(* The upstream response, as every handler treats it:                      *)
(*   if response.status == 200: return await response.json()               *)
(*   else: raise Exception(f"API Error: {response.status} - {text}")       *)
(***************************************************************************)
Pending == [state |-> "pending", exc |-> "", msg |-> <<>>, value |-> <<>>]

Returned(value) == [state |-> "returned", exc |-> "", msg |-> <<>>, value |-> value]

Raised(exc, msg) == [state |-> "raised", exc |-> exc, msg |-> msg, value |-> <<>>]

\* str(response.status)
StatusText(status) ==
    CASE status = 200 -> "200"
      [] status = 201 -> "201"
      [] status = 404 -> "404"
      [] status = 500 -> "500"
      [] OTHER -> "???"

\* The pieces of a text joined into the one string they stand for
RECURSIVE Text(_)
Text(pieces) == IF pieces = <<>> THEN "" ELSE Head(pieces) \o Text(Tail(pieces))

\* A response body that is a JSON string, with the text of a tool error in it
ErrorLikeBody == "\"Error calling tool get_note: Cannot connect to host\""

\* Whether json.loads accepts the body
IsJson(body) == body \in {"[]", "{\"id\": 1}", ErrorLikeBody}

\* The statuses the operation's "if response.status ..." test accepts
SuccessStatuses(o) ==
    IF o = "create_appointment" THEN {200, 201} ELSE {200}

\* A mutant of ResultKind: the PDF operations decode the body as JSON too.
ResultKindAllJson(o) ==
    CASE o \in {"cancel_appointment", "add_client_tag", "remove_client_tag"} -> "fixed"
      [] OTHER -> "json"

\* What the operation returns on success: the decoded JSON body, the raw
\* bytes (response.read()) or a fixed dict.
ResultKind(o) ==
    CASE o \in {"get_note_pdf", "get_intake_pdf"} -> "bytes"
      [] o \in {"cancel_appointment", "add_client_tag", "remove_client_tag"} -> "fixed"
      [] OTHER -> "json"

FixedMessage(o) ==
    CASE o = "cancel_appointment" -> "Appointment canceled successfully"
      [] o = "add_client_tag" -> "Tag added successfully"
      [] o = "remove_client_tag" -> "Tag removed successfully"
      [] OTHER -> ""

\* A mutant of ApiError: the message carries the status but not the body.
ApiErrorNoBody(status, body) ==
    Raised("Exception", <<"API Error: ", StatusText(status), " - ">>)

\* raise Exception(f"API Error: {response.status} - {await response.text()}")
ApiError(status, body) ==
    Raised("Exception", <<"API Error: ", StatusText(status), " - ", body>>)

HandleResponse(o, status, body) ==
    IF status \in SuccessStatuses(o)
    THEN CASE ResultKind(o) = "bytes" -> Returned(<<"bytes", body>>)
           [] ResultKind(o) = "fixed" -> Returned(<<"fixed", "success", FixedMessage(o)>>)
           [] OTHER -> IF IsJson(body)
                       THEN Returned(<<"json", body>>)
                       ELSE Raised("JSONDecodeError", <<"Expecting value">>)
    ELSE ApiError(status, body)

(***************************************************************************)
(* Calling a handler method with its arguments bound from a dict: a        *)
(* method taking a dict gets the dict, a method taking positional          *)
(* arguments gets them by name; a positional argument without a default    *)
(* that is not given is Python's TypeError.                                *)
(***************************************************************************)
MissingPositional(o, args, names) ==
    LET missing == SelectSeq(names, LAMBDA n : n \notin DOMAIN args)
    IN  Raise("TypeError",
              <<o, "() missing required positional argument: '", Head(missing), "'">>)

HasAll(args, names) == \A i \in 1..Len(names) : names[i] \in DOMAIN args

Handler(o, api_key, args) ==
    CASE o = "get_appointments" -> get_appointments(api_key, args)
      [] o = "get_appointment" ->
            IF HasAll(args, <<"appointment_id">>)
            THEN get_appointment(api_key, args["appointment_id"])
            ELSE MissingPositional(o, args, <<"appointment_id">>)
      [] o = "create_appointment" -> create_appointment(api_key, args)
      [] o = "update_appointment" -> update_appointment(api_key, args)
      [] o = "cancel_appointment" ->
            IF HasAll(args, <<"appointment_id">>)
            THEN cancel_appointment(api_key, args["appointment_id"],
                                    GetDefault(args, "reason", None))
            ELSE MissingPositional(o, args, <<"appointment_id">>)
      [] o = "get_booking_settings" -> get_booking_settings(api_key)
      [] o = "get_clients" -> get_clients(api_key, args)
      [] o = "create_or_update_client" -> create_or_update_client(api_key, args)
      [] o = "add_client_tag" ->
            IF HasAll(args, <<"client_id", "tag">>)
            THEN add_client_tag(api_key, args["client_id"], args["tag"])
            ELSE MissingPositional(o, args, <<"client_id", "tag">>)
      [] o = "remove_client_tag" ->
            IF HasAll(args, <<"client_id", "tag">>)
            THEN remove_client_tag(api_key, args["client_id"], args["tag"])
            ELSE MissingPositional(o, args, <<"client_id", "tag">>)
      [] o = "get_client_diagnoses" ->
            IF HasAll(args, <<"client_id">>)
            THEN get_client_diagnoses(api_key, args["client_id"])
            ELSE MissingPositional(o, args, <<"client_id">>)
      [] o = "get_invoices" -> get_invoices(api_key, args)
      [] o = "get_invoice" ->
            IF HasAll(args, <<"invoice_id">>)
            THEN get_invoice(api_key, args["invoice_id"])
            ELSE MissingPositional(o, args, <<"invoice_id">>)
      [] o = "get_notes_summary" -> get_notes_summary(api_key, args)
      [] o = "get_note" ->
            IF HasAll(args, <<"note_id">>)
            THEN get_note(api_key, args["note_id"])
            ELSE MissingPositional(o, args, <<"note_id">>)
      [] o = "get_note_pdf" ->
            IF HasAll(args, <<"note_id">>)
            THEN get_note_pdf(api_key, args["note_id"])
            ELSE MissingPositional(o, args, <<"note_id">>)
      [] o = "get_intakes_summary" -> get_intakes_summary(api_key, args)
      [] o = "get_intake" ->
            IF HasAll(args, <<"intake_id">>)
            THEN get_intake(api_key, args["intake_id"])
            ELSE MissingPositional(o, args, <<"intake_id">>)
      [] o = "send_questionnaire" -> send_questionnaire(api_key, args)
      [] o = "resend_questionnaire" -> resend_questionnaire(api_key, args)
      [] o = "get_questionnaire_templates" -> get_questionnaire_templates(api_key)
      [] o = "get_practitioners" -> get_practitioners(api_key)
      [] o = "get_intake_pdf" ->
            IF HasAll(args, <<"intake_id">>)
            THEN get_intake_pdf(api_key, args["intake_id"])
            ELSE MissingPositional(o, args, <<"intake_id">>)
      [] o = "update_office_use_questions" -> update_office_use_questions(api_key, args)

(***************************************************************************)
(* config.py: IntakeQConfig and ConfigManager                              *)
(***************************************************************************)
DefaultPort == 8000

MaxPort == 65535

DefaultCacheTtl == 300

DefaultLogFormat == "%(asctime)s - %(name)s - %(levelname)s - %(message)s"

\* IntakeQConfig(): the defaults of the fields (those the model follows)
IntakeQConfigDefaults ==
    [port |-> DefaultPort, cache_ttl |-> DefaultCacheTtl, log_level |-> "INFO",
     log_format |-> DefaultLogFormat]

\* The environment variable of each field
env_mappings ==
    [PORT |-> "port", CACHE_TTL |-> "cache_ttl", LOG_LEVEL |-> "log_level",
     LOG_FORMAT |-> "log_format"]

int_fields == {"port", "cache_ttl"}

\* int(value): the integer, or ValueError
ParseInt(value) ==
    CASE value = "8080" -> [ok |-> TRUE, value |-> 8080]
      [] value = "70000" -> [ok |-> TRUE, value |-> 70000]
      [] value = "0" -> [ok |-> TRUE, value |-> 0]
      [] value = "-1" -> [ok |-> TRUE, value |-> 0 - 1]
      [] value = "60" -> [ok |-> TRUE, value |-> 60]
      [] OTHER -> [ok |-> FALSE, value |-> 0]

\* str.upper()
Upper(text) ==
    CASE text = "debug" -> "DEBUG"
      [] text = "verbose" -> "VERBOSE"
      [] OTHER -> text

valid_log_levels == {"DEBUG", "INFO", "WARNING", "ERROR", "CRITICAL"}

\* ConfigManager._convert_env_value
convert_env_value(value, key) ==
    IF key \in int_fields
    THEN IF ParseInt(value).ok
         THEN ParseInt(value).value
         ELSE IntakeQConfigDefaults[key]
    ELSE value

\* IntakeQConfig.__post_init__
post_init(c) ==
    LET c1 == IF Upper(c.log_level) \notin valid_log_levels
              THEN [c EXCEPT !.log_level = "INFO"] ELSE c
    IN  IF ~(1 <= c1.port /\ c1.port <= MaxPort)
        THEN [c1 EXCEPT !.port = DefaultPort] ELSE c1

\* Whether logging.Formatter accepts the format: it has a %(name)s field
ValidLogFormat(fmt) == fmt \in {DefaultLogFormat, "%(message)s"}

\* ConfigManager._setup_logging: logging.basicConfig builds a Formatter
\* when the root logger has no handler yet, and raises ValueError for a
\* format it does not accept
setup_logging_raises(c, root_handlers) ==
    ~root_handlers /\ ~ValidLogFormat(c.log_format)

\* ConfigManager.load_config under the environment e
load_config(e, root_handlers) ==
    LET config_data ==
            [f \in {env_mappings[v] : v \in DOMAIN e} |->
                LET v == CHOOSE v \in DOMAIN e : env_mappings[v] = f
                IN  convert_env_value(e[v], f)]
        c == post_init([f \in DOMAIN IntakeQConfigDefaults |->
                           IF f \in DOMAIN config_data
                           THEN config_data[f] ELSE IntakeQConfigDefaults[f]])
    IN  IF setup_logging_raises(c, root_handlers)
        THEN [raised |-> TRUE, exc |-> "ValueError", config |-> IntakeQConfigDefaults]
        ELSE [raised |-> FALSE, exc |-> "", config |-> c]

(***************************************************************************)
(* web_server.py: the HTTP facade                                          *)
(***************************************************************************)
\* No HTTP response (yet, or not an HTTP call)
NoHttp == [status |-> 0, detail |-> <<>>]

\* A JSON response: 200 with the returned value, or an HTTPException's
\* status and detail
HttpResponse(status, detail) == [status |-> status, detail |-> detail]

\* A mutant of verify_vapi_token: the key check comes to the gate's place, so
\* a request without the token is let through to it.
verify_vapi_token_after_key(creds) ==
    IF config.VAPI_AUTH_TOKEN = "" \/ config.INTAKEQ_API_KEY = "" THEN NoHttp
    ELSE IF creds = None
         THEN HttpResponse(401, <<"Authorization header missing">>)
    ELSE IF Str(creds) # config.VAPI_AUTH_TOKEN
         THEN HttpResponse(401, <<"Invalid authentication token">>)
         ELSE NoHttp

\* verify_vapi_token(credentials): NoHttp when it returns True, the 401 it
\* raises otherwise
verify_vapi_token(creds) ==
    IF config.VAPI_AUTH_TOKEN = "" THEN NoHttp
    ELSE IF creds = None
         THEN HttpResponse(401, <<"Authorization header missing">>)
    ELSE IF Str(creds) # config.VAPI_AUTH_TOKEN
         THEN HttpResponse(401, <<"Invalid authentication token">>)
         ELSE NoHttp

\* A mutant of ApiKeyNotConfigured: the key is never found missing.
ApiKeyNotConfiguredNever(key) == FALSE

\* if not INTAKEQ_API_KEY
ApiKeyNotConfigured(key) == key = ""

\* The routes declared with Depends(verify_vapi_token), by function name
GatedRoutes ==
    {"get_appointments", "get_appointment", "create_appointment",
     "update_appointment", "cancel_appointment", "get_booking_settings",
     "get_clients", "create_client", "add_client_tag", "remove_client_tag",
     "get_invoices", "get_invoice", "get_notes", "get_note",
     "get_questionnaire_templates", "get_practitioners", "get_intakes",
     "get_intake", "send_questionnaire", "resend_questionnaire"}

\* The routes declared without it: "/" and "/health"
OpenRoutes == {"root", "health_check"}

HttpRoutes == GatedRoutes \cup OpenRoutes

ListRoutes == {"get_appointments", "get_clients", "get_invoices", "get_notes",
               "get_intakes"}

\* The routes that hand the request's JSON body whole to the handler
DataRoutes == {"create_appointment", "update_appointment", "create_client",
               "send_questionnaire", "resend_questionnaire"}

BodyRoutes == DataRoutes \cup {"cancel_appointment", "add_client_tag"}

\* The handler method a route calls
RouteOp(route) ==
    CASE route = "create_client" -> "create_or_update_client"
      [] route = "get_notes" -> "get_notes_summary"
      [] route = "get_intakes" -> "get_intakes_summary"
      [] OTHER -> route

\* The query parameters a list route declares
RouteQuery(route) ==
    CASE route = "get_appointments" ->
            {"client", "startDate", "endDate", "status", "practitionerEmail", "page"}
      [] route = "get_clients" ->
            {"search", "page", "includeProfile", "dateCreatedStart", "dateCreatedEnd"}
      [] route = "get_invoices" -> {"clientId", "status", "startDate", "endDate", "page"}
      [] route = "get_notes" -> {"client", "clientId", "status", "page"}
      [] route = "get_intakes" -> {"client", "clientId", "startDate", "endDate", "page"}
      [] OTHER -> {}

\* The path parameters of a route
RoutePath(route) ==
    CASE route \in {"add_client_tag", "remove_client_tag"} ->
            IF route = "add_client_tag" THEN {"client_id"} ELSE {"client_id", "tag"}
      [] route = "get_appointment" -> {"appointment_id"}
      [] route = "get_invoice" -> {"invoice_id"}
      [] route = "get_note" -> {"note_id"}
      [] route = "get_intake" -> {"intake_id"}
      [] OTHER -> {}

\* params = {...}; params = {k: v for k, v in params.items() if v is not None}
QueryParams(route, a) ==
    [k \in {q \in RouteQuery(route) \cap DOMAIN a : a[q] # None} |-> a[k]]

\* a or b
Or(a, b) == IF Truthy(a) THEN a ELSE b

\* str(e) of an HTTPException caught by "except Exception": the status and
\* the detail where the installed Starlette defines __str__, the empty
\* string where it does not
HTTPExceptionStr(status, detail, build) ==
    IF build = "str" THEN <<status, ": ", detail>> ELSE <<"">>

Builds == {"str", "nostr"}

\* The try block of a gated route: the handler call it makes, or what it
\* raises before it.  GET /appointments/settings is matched by the route
\* /appointments/{appointment_id}, declared first.
Endpoint(route, api_key, a, build) ==
    CASE route \in ListRoutes -> Handler(RouteOp(route), api_key, QueryParams(route, a))
      [] route = "get_booking_settings" -> get_appointment(api_key, StrV("settings"))
      [] route \in DataRoutes -> Handler(RouteOp(route), api_key, a)
      [] route = "cancel_appointment" ->
            LET appointment_id == Or(Get(a, "appointment_id"), Get(a, "AppointmentId"))
                reason == Or(Get(a, "reason"), Get(a, "Reason"))
            IN  IF ~Truthy(appointment_id)
                THEN Raise("HTTPException",
                           HTTPExceptionStr("400", "appointment_id is required", build))
                ELSE cancel_appointment(api_key, appointment_id, reason)
      [] route = "add_client_tag" ->
            LET tag == Get(a, "tag")
            IN  IF ~Truthy(tag)
                THEN Raise("HTTPException",
                           HTTPExceptionStr("400", "tag is required", build))
                ELSE add_client_tag(api_key, a["client_id"], tag)
      [] OTHER -> Handler(RouteOp(route), api_key,
                          [k \in RoutePath(route) |-> a[k]])

\* return result / except Exception as e: raise HTTPException(500, str(e))
HttpResult(out) ==
    IF out.state = "returned"
    THEN HttpResponse(200, <<>>)
    ELSE HttpResponse(500, out.msg)

(***************************************************************************)
(* server.py: IntakeQMCPServer.route_tool_call                             *)
(***************************************************************************)
\* arguments[k] for the first k of keys that is absent: KeyError(k), whose
\* str() is the key's repr
KeyError(arguments, keys) ==
    LET missing == SelectSeq(keys, LAMBDA k : k \notin DOMAIN arguments)
    IN  Raise("KeyError", <<"'", Head(missing), "'">>)

\* A mutant of CredentialMissing: only an absent or null key is missing.
CredentialMissingNoneOnly(api_key) == api_key = None

\* if not api_key
CredentialMissing(api_key) == ~Truthy(api_key)

\* The nested dict a 'client_data' argument stands for
ObjectDict(v) ==
    CASE v = ObjV("{'Name': 'Jane Doe'}") -> DictSet(EmptyDict, "Name", StrV("Jane Doe"))
      [] OTHER -> EmptyDict

create_appointment_tool_required ==
    <<"practitioner_id", "client_id", "service_id", "location_id", "status",
      "utc_datetime">>

\* A mutant of UnknownTool: an unrouted name falls through to the settings call.
UnknownToolFallsThrough(tool_name, api_key) == get_booking_settings(api_key)

\* else: raise ValueError(f"Unknown tool: {tool_name}")
UnknownTool(tool_name, api_key) ==
    Raise("ValueError", <<"Unknown tool: ", tool_name>>)

route_tool_call(tool_name, arguments) ==
    LET api_key == Get(arguments, "api_key")
    IN  IF CredentialMissing(api_key)
        THEN Raise("ValueError", <<"API key is required">>)
        ELSE
        CASE tool_name = "get_appointments" -> get_appointments(api_key, arguments)
          [] tool_name = "get_appointment" ->
                IF HasAll(arguments, <<"appointment_id">>)
                THEN get_appointment(api_key, arguments["appointment_id"])
                ELSE KeyError(arguments, <<"appointment_id">>)
          [] tool_name = "create_appointment" ->
                IF HasAll(arguments, create_appointment_tool_required)
                THEN create_appointment(api_key,
                        [k \in {"PractitionerId", "ClientId", "ServiceId",
                                "LocationId", "Status", "UtcDateTime",
                                "SendClientEmailNotification", "ReminderType"} |->
                            CASE k = "PractitionerId" -> arguments["practitioner_id"]
                              [] k = "ClientId" -> arguments["client_id"]
                              [] k = "ServiceId" -> arguments["service_id"]
                              [] k = "LocationId" -> arguments["location_id"]
                              [] k = "Status" -> arguments["status"]
                              [] k = "UtcDateTime" -> arguments["utc_datetime"]
                              [] k = "SendClientEmailNotification" ->
                                    GetDefault(arguments, "send_email_notification", BoolV("True"))
                              [] k = "ReminderType" ->
                                    GetDefault(arguments, "reminder_type", StrV("Email"))])
                ELSE KeyError(arguments, create_appointment_tool_required)
          [] tool_name = "get_booking_settings" -> get_booking_settings(api_key)
          [] tool_name = "get_clients" -> get_clients(api_key, arguments)
          [] tool_name = "create_client" ->
                IF HasAll(arguments, <<"client_data">>)
                THEN create_or_update_client(api_key, ObjectDict(arguments["client_data"]))
                ELSE KeyError(arguments, <<"client_data">>)
          [] tool_name = "get_invoices" -> get_invoices(api_key, arguments)
          [] tool_name = "get_invoice" ->
                IF HasAll(arguments, <<"invoice_id">>)
                THEN get_invoice(api_key, arguments["invoice_id"])
                ELSE KeyError(arguments, <<"invoice_id">>)
          [] tool_name = "get_notes" -> get_notes_summary(api_key, arguments)
          [] tool_name = "get_note" ->
                IF HasAll(arguments, <<"note_id">>)
                THEN get_note(api_key, arguments["note_id"])
                ELSE KeyError(arguments, <<"note_id">>)
          [] tool_name = "get_questionnaire_templates" ->
                get_questionnaire_templates(api_key)
          [] tool_name = "send_questionnaire" ->
                IF HasAll(arguments, <<"questionnaire_id">>)
                THEN send_questionnaire(api_key,
                        [k \in {"QuestionnaireId", "ClientId", "ClientName",
                                "ClientEmail", "PractitionerId"} |->
                            CASE k = "QuestionnaireId" -> arguments["questionnaire_id"]
                              [] k = "ClientId" -> Get(arguments, "client_id")
                              [] k = "ClientName" -> Get(arguments, "client_name")
                              [] k = "ClientEmail" -> Get(arguments, "client_email")
                              [] k = "PractitionerId" -> Get(arguments, "practitioner_id")])
                ELSE KeyError(arguments, <<"questionnaire_id">>)
          [] OTHER -> UnknownTool(tool_name, api_key)

\* json.dumps(result, indent=2) of a decoded body or a fixed dict
\* A mutant of JsonDumps: a payload that is a string is returned as it is,
\* without the quotes of its JSON form.
JsonDumpsStrUnquoted(value) ==
    CASE value = <<"json", "[]">> -> "[]"
      [] value = <<"json", "{\"id\": 1}">> -> "{\n  \"id\": 1\n}"
      [] value = <<"json", ErrorLikeBody>> ->
            "Error calling tool get_note: Cannot connect to host"
      [] value[1] = "fixed" ->
            "{\n  \"success\": true,\n  \"message\": \"" \o value[3] \o "\"\n}"
      [] OTHER -> "?"

\* json.dumps(result, indent=2) of the decoded payload: a list and a dict in
\* their indented form, a string between quotes
JsonDumps(value) ==
    CASE value = <<"json", "[]">> -> "[]"
      [] value = <<"json", ErrorLikeBody>> -> ErrorLikeBody
      [] value = <<"json", "{\"id\": 1}">> -> "{\n  \"id\": 1\n}"
      [] value[1] = "fixed" ->
            "{\n  \"success\": true,\n  \"message\": \"" \o value[3] \o "\"\n}"
      [] OTHER -> "?"

\* A mutant of handle_call_tool_text: "except ValueError" in place of
\* "except Exception"; any other exception leaves the function, and no text
\* is returned.
handle_call_tool_text_value_error_only(name, out) ==
    IF out.state = "returned"
    THEN <<JsonDumps(out.value)>>
    ELSE IF out.exc = "ValueError"
         THEN <<"Error calling tool ", name, ": ">> \o out.msg
         ELSE <<>>

\* server.py handle_call_tool: the text of the TextContent it returns
handle_call_tool_text(name, out) ==
    IF out.state = "returned"
    THEN IF out.value[1] = "bytes"
         THEN <<"Error calling tool ", name, ": ",
                "Object of type bytes is not JSON serializable">>
         ELSE <<JsonDumps(out.value)>>
    ELSE <<"Error calling tool ", name, ": ">> \o out.msg

(***************************************************************************)
(* The calls the model makes: the tools and their arguments, the handler   *)
(* operations and their arguments, and the upstream's responses.           *)
(***************************************************************************)
\* How many entries of a well-formed argument dict a call may change
MaxEdits == 1

\* A mutant of AdvertisedTools: cancel_appointment is listed too.
AdvertisedToolsWithCancel ==
    {"get_appointments", "get_appointment", "create_appointment",
     "get_booking_settings", "get_clients", "create_client", "get_invoices",
     "get_invoice", "get_notes", "get_note", "get_questionnaire_templates",
     "send_questionnaire", "cancel_appointment"}

\* The names of the tools handle_list_tools returns
AdvertisedTools ==
    {"get_appointments", "get_appointment", "create_appointment",
     "get_booking_settings", "get_clients", "create_client", "get_invoices",
     "get_invoice", "get_notes", "get_note", "get_questionnaire_templates",
     "send_questionnaire"}

\* The names route_tool_call routes
RoutedTools ==
    {"get_appointments", "get_appointment", "create_appointment",
     "get_booking_settings", "get_clients", "create_client", "get_invoices",
     "get_invoice", "get_notes", "get_note", "get_questionnaire_templates",
     "send_questionnaire"}

\* Names it does not route: handler operations without a tool, and a name
\* nothing has
UnroutedTools == {"update_appointment", "cancel_appointment", "no_such_tool"}

ToolNames == RoutedTools \cup UnroutedTools

HandlerOps ==
    {"get_appointments", "get_appointment", "create_appointment",
     "update_appointment", "cancel_appointment", "get_booking_settings",
     "get_clients", "create_or_update_client", "add_client_tag",
     "remove_client_tag", "get_client_diagnoses", "get_invoices",
     "get_invoice", "get_notes_summary", "get_note", "get_note_pdf",
     "get_intakes_summary", "get_intake", "send_questionnaire",
     "resend_questionnaire", "get_questionnaire_templates",
     "get_practitioners", "get_intake_pdf", "update_office_use_questions"}

\* The five list operations and the keys each recognizes
ListOps ==
    {"get_appointments", "get_clients", "get_invoices", "get_notes_summary",
     "get_intakes_summary"}

BoolKeys == {"includeProfile", "deletedOnly", "all"}

RecognizedKeys(o) ==
    CASE o = "get_appointments" ->
            {"client", "startDate", "endDate", "status", "practitionerEmail",
             "page", "updatedSince", "deletedOnly"}
      [] o = "get_clients" ->
            {"search", "page", "includeProfile", "dateCreatedStart",
             "dateCreatedEnd", "dateUpdatedStart", "dateUpdatedEnd",
             "externalClientId", "deletedOnly"}
      [] o = "get_invoices" ->
            {"clientId", "startDate", "endDate", "status", "practitionerEmail",
             "number", "page", "lastUpdatedStartDate", "lastUpdatedEndDate"}
      [] o = "get_notes_summary" ->
            {"client", "clientId", "status", "startDate", "endDate", "page",
             "updatedSince", "deletedOnly"}
      [] o = "get_intakes_summary" ->
            {"client", "startDate", "endDate", "page", "all", "clientId",
             "externalClientId", "updatedSince", "deletedOnly"}
      [] OTHER -> {}

\* The type an argument is declared with (the tools' input schemas and the
\* query parameters of the HTTP routes); other arguments are strings.
KeyType(k) ==
    CASE k \in {"page", "client_id", "clientId", "utc_datetime", "ClientId",
                "UtcDateTime"} -> "int"
      [] k \in {"includeProfile", "deletedOnly", "all", "send_email_notification",
                "SendClientEmailNotification"} -> "bool"
      [] k = "client_data" -> "obj"
      [] OTHER -> "str"

\* The values an argument may be given: null, and values of its type; a
\* boolean argument may also come as an integer or as a string.
Vals(k) ==
    {None} \cup
    CASE KeyType(k) = "int" -> {IntV("0"), IntV("1")}
      [] KeyType(k) = "bool" ->
            {BoolV("True"), BoolV("False"), IntV("0"), IntV("1"), StrV("True"),
             StrV("")}
      [] KeyType(k) = "obj" -> {ObjV("{}")}
      [] k = "api_key" -> {StrV(""), StrV("key-B")}
      [] OTHER -> {StrV(""), StrV("Jane Doe")}

Dict1(k, v) == DictSet(EmptyDict, k, v)

\* d with the entries of e added
Merge(d, e) == [k \in DOMAIN d \cup DOMAIN e |-> IF k \in DOMAIN e THEN e[k] ELSE d[k]]

\* The arguments a tool's schema declares and the keys its handler reads,
\* besides api_key
ToolKeys(name) ==
    CASE name = "get_appointment" -> {"appointment_id"}
      [] name = "create_appointment" ->
            {"practitioner_id", "client_id", "service_id", "location_id",
             "status", "utc_datetime", "send_email_notification", "reminder_type"}
      [] name = "create_client" -> {"client_data"}
      [] name = "get_invoices" -> RecognizedKeys("get_invoices") \cup {"client_id"}
      [] name = "get_invoice" -> {"invoice_id"}
      [] name = "get_notes" -> RecognizedKeys("get_notes_summary") \cup {"client_id"}
      [] name = "get_note" -> {"note_id"}
      [] name = "send_questionnaire" ->
            {"questionnaire_id", "client_id", "client_name", "client_email",
             "practitioner_id"}
      [] name \in {"get_appointments", "get_clients"} -> RecognizedKeys(name)
      [] OTHER -> {}

\* The required arguments of a tool, each with a usual value
ToolRequired(name) ==
    CASE name = "get_appointment" -> Dict1("appointment_id", StrV("123"))
      [] name = "create_appointment" ->
            [k \in {"practitioner_id", "client_id", "service_id", "location_id",
                    "status", "utc_datetime"} |->
                CASE k = "client_id" -> IntV("1")
                  [] k = "status" -> StrV("Confirmed")
                  [] k = "utc_datetime" -> IntV("1700000000")
                  [] OTHER -> StrV("123")]
      [] name = "create_client" -> Dict1("client_data", ObjV("{'Name': 'Jane Doe'}"))
      [] name = "get_invoice" -> Dict1("invoice_id", StrV("123"))
      [] name = "get_note" -> Dict1("note_id", StrV("99"))
      [] name = "send_questionnaire" -> Dict1("questionnaire_id", StrV("123"))
      [] OTHER -> EmptyDict

\* A well-formed argument dict of a tool call
ToolBases(name) ==
    LET min == Merge(Dict1("api_key", StrV("key-A")), ToolRequired(name))
    IN  {min} \cup
        (IF name = "get_appointments"
         THEN {Merge(min, [k \in {"client", "status"} |->
                              IF k = "client" THEN StrV("Jane Doe") ELSE StrV("Confirmed")])}
         ELSE {})

\* The keys of the dict (or the names of the positional arguments) a
\* handler operation reads
HandlerKeys(o) ==
    CASE o \in ListOps -> RecognizedKeys(o)
      [] o = "get_appointment" -> {"appointment_id"}
      [] o = "create_appointment" ->
            {"PractitionerId", "ClientId", "ServiceId", "LocationId", "Status",
             "UtcDateTime", "SendClientEmailNotification", "ReminderType"}
      [] o = "update_appointment" -> {"Id", "UtcDateTime", "Status"}
      [] o = "cancel_appointment" -> {"appointment_id", "reason"}
      [] o = "create_or_update_client" -> {"Name"}
      [] o \in {"add_client_tag", "remove_client_tag"} -> {"client_id", "tag"}
      [] o = "get_client_diagnoses" -> {"client_id"}
      [] o = "get_invoice" -> {"invoice_id"}
      [] o \in {"get_note", "get_note_pdf"} -> {"note_id"}
      [] o \in {"get_intake", "get_intake_pdf"} -> {"intake_id"}
      [] o = "send_questionnaire" ->
            {"QuestionnaireId", "ClientId", "ClientName", "ClientEmail",
             "PractitionerId"}
      [] o = "resend_questionnaire" -> {"IntakeId"}
      [] o = "update_office_use_questions" -> {"Id"}
      [] OTHER -> {}

\* The required arguments of a handler operation: the fields its validation
\* names, and its positional parameters without a default
RequiredArgs(o) ==
    CASE o = "get_appointment" -> <<"appointment_id">>
      [] o = "create_appointment" ->
            <<"PractitionerId", "ClientId", "ServiceId", "LocationId", "Status",
              "UtcDateTime">>
      [] o = "update_appointment" -> <<"Id", "UtcDateTime">>
      [] o = "cancel_appointment" -> <<"appointment_id">>
      [] o \in {"add_client_tag", "remove_client_tag"} -> <<"client_id", "tag">>
      [] o = "get_client_diagnoses" -> <<"client_id">>
      [] o = "get_invoice" -> <<"invoice_id">>
      [] o \in {"get_note", "get_note_pdf"} -> <<"note_id">>
      [] o \in {"get_intake", "get_intake_pdf"} -> <<"intake_id">>
      [] o = "send_questionnaire" -> <<"QuestionnaireId">>
      [] o = "resend_questionnaire" -> <<"IntakeId">>
      [] OTHER -> <<>>

\* A well-formed argument dict of a handler call
HandlerBases(o) ==
    LET req == RequiredArgs(o)
        min == [k \in {req[i] : i \in 1..Len(req)} |->
                   CASE k \in {"ClientId", "client_id"} -> IntV("1")
                     [] k = "Status" -> StrV("Confirmed")
                     [] k = "UtcDateTime" -> IntV("1700000000")
                     [] k = "tag" -> StrV("vip")
                     [] OTHER -> StrV("123")]
    IN  {min} \cup
        (IF o = "get_appointments"
         THEN {[k \in {"client", "status"} |->
                   IF k = "client" THEN StrV("Jane Doe") ELSE StrV("Confirmed")]}
         ELSE {})

\* d, and d with one entry set to a value or removed
Edit1(d, keys) ==
    {d} \cup UNION {{DictSet(d, k, v) : v \in Vals(k)} : k \in keys}
        \cup {DictDel(d, k) : k \in keys}

RECURSIVE EditsN(_, _, _)
EditsN(ds, keys, n) ==
    IF n = 0 THEN ds
    ELSE EditsN(UNION {Edit1(d, keys) : d \in ds}, keys, n - 1)

ToolArguments(name) ==
    EditsN(ToolBases(name), ToolKeys(name) \cup {"api_key", "extra"}, MaxEdits)

HandlerArguments(o) ==
    EditsN(HandlerBases(o), HandlerKeys(o) \cup {"extra"}, MaxEdits)

\* The values a query parameter of an HTTP route may have: of its declared
\* type, never null
HttpVals(k) ==
    CASE KeyType(k) = "bool" -> {BoolV("True"), BoolV("False")}
      [] OTHER -> Vals(k) \ {None}

\* The keys of the JSON body a route reads
RouteBodyKeys(route) ==
    CASE route \in DataRoutes -> HandlerKeys(RouteOp(route))
      [] route = "cancel_appointment" ->
            {"appointment_id", "AppointmentId", "reason", "Reason"}
      [] route = "add_client_tag" -> {"tag"}
      [] OTHER -> {}

\* A well-formed request of a route: its path parameters, and the query
\* parameters or the JSON body, in one dict
RouteBases(route) ==
    CASE route \in DataRoutes \cup ListRoutes -> HandlerBases(RouteOp(route))
      [] route = "cancel_appointment" -> {Dict1("appointment_id", StrV("123"))}
      [] route = "add_client_tag" ->
            {DictSet(Dict1("client_id", IntV("1")), "tag", StrV("vip"))}
      [] route = "remove_client_tag" ->
            {DictSet(Dict1("client_id", IntV("1")), "tag", StrV("vip"))}
      [] OTHER -> {[k \in RoutePath(route) |-> StrV("123")]}

HttpArguments(route) ==
    {d \in EditsN(RouteBases(route),
                  RouteQuery(route) \cup RouteBodyKeys(route) \cup {"extra"}, MaxEdits) :
        route \in BodyRoutes
        \/ \A k \in DOMAIN d \ RoutePath(route) :
              d[k] \in HttpVals(k) \cup {StrV("Confirmed")}}

\* The Authorization header of an HTTP request: none, or a bearer credential
BearerCredentials == {None, StrV("tok-1"), StrV("tok-2")}

\* The programs and their settings: server.py, the handlers used on their
\* own, and web_server.py with VAPI_AUTH_TOKEN and INTAKEQ_API_KEY read from
\* the environment ("" when unset)
Configs ==
    {[entry |-> e, VAPI_AUTH_TOKEN |-> "", INTAKEQ_API_KEY |-> ""] :
        e \in {"server", "handlers"}}
    \cup {[entry |-> "web_server", VAPI_AUTH_TOKEN |-> t, INTAKEQ_API_KEY |-> k] :
            t \in {"", "tok-1"}, k \in {"", "key-A"}}

Credentials == {StrV("key-A"), StrV("key-B")}

Statuses == {200, 201, 404, 500}

Bodies == {"[]", "{\"id\": 1}", "not found", "%PDF-1.4", ErrorLikeBody}

(***************************************************************************)
(* The state machine: one call at a time, from its start to its outcome.   *)
(***************************************************************************)
\* A mutant of StartupLog: the last line shows the key itself.
StartupLogWithKey(cfg) ==
    IF cfg.entry # "web_server" THEN <<>>
    ELSE (IF cfg.INTAKEQ_API_KEY = ""
          THEN << <<"INTAKEQ_API_KEY not set in environment variables!">> >>
          ELSE <<>>)
         \o (IF cfg.VAPI_AUTH_TOKEN = ""
             THEN << <<"VAPI_AUTH_TOKEN not set in environment variables! ",
                       "Authentication will be disabled.">> >>
             ELSE <<>>)
         \o << <<"VAPI Authentication: ",
                 IF cfg.VAPI_AUTH_TOKEN # "" THEN "Enabled" ELSE "Disabled">>,
               <<"IntakeQ API Key: ", cfg.INTAKEQ_API_KEY>> >>

\* The messages web_server.py logs when it is loaded and started: the two
\* warnings of unset variables, and the two status lines of __main__
StartupLog(cfg) ==
    IF cfg.entry # "web_server" THEN <<>>
    ELSE (IF cfg.INTAKEQ_API_KEY = ""
          THEN << <<"INTAKEQ_API_KEY not set in environment variables!">> >>
          ELSE <<>>)
         \o (IF cfg.VAPI_AUTH_TOKEN = ""
             THEN << <<"VAPI_AUTH_TOKEN not set in environment variables! ",
                       "Authentication will be disabled.">> >>
             ELSE <<>>)
         \o << <<"VAPI Authentication: ",
                 IF cfg.VAPI_AUTH_TOKEN # "" THEN "Enabled" ELSE "Disabled">>,
               <<"IntakeQ API Key: ",
                 IF cfg.INTAKEQ_API_KEY # "" THEN "Configured" ELSE "Not configured">> >>

\* logger.warning of verify_vapi_token when no token is configured
GateLog(route) ==
    IF route \in GatedRoutes /\ config.VAPI_AUTH_TOKEN = ""
    THEN << <<"No VAPI_AUTH_TOKEN configured, skipping authentication">> >>
    ELSE <<>>

\* The beginning of the message each route logs for an exception
ErrorPrefix(route) ==
    CASE route = "get_appointments" -> "Error getting appointments: "
      [] route = "get_appointment" -> "Error getting appointment: "
      [] route = "create_appointment" -> "Error creating appointment: "
      [] route = "update_appointment" -> "Error updating appointment: "
      [] route = "cancel_appointment" -> "Error canceling appointment: "
      [] route = "get_booking_settings" -> "Error getting appointment: "
      [] route = "get_clients" -> "Error getting clients: "
      [] route = "create_client" -> "Error creating client: "
      [] route = "add_client_tag" -> "Error adding client tag: "
      [] route = "remove_client_tag" -> "Error removing client tag: "
      [] route = "get_invoices" -> "Error getting invoices: "
      [] route = "get_invoice" -> "Error getting invoice: "
      [] route = "get_notes" -> "Error getting notes: "
      [] route = "get_note" -> "Error getting note: "
      [] route = "get_questionnaire_templates" -> "Error getting questionnaire templates: "
      [] route = "get_practitioners" -> "Error getting practitioners: "
      [] route = "get_intakes" -> "Error getting intakes: "
      [] route = "get_intake" -> "Error getting intake: "
      [] route = "send_questionnaire" -> "Error sending questionnaire: "
      [] route = "resend_questionnaire" -> "Error resending questionnaire: "
      [] OTHER -> "Unhandled exception: "

\* logger.error(f"Error ...: {str(e)}")
ErrorLog(route, msg) == <<ErrorPrefix(route)>> \o msg

\* What a request logs up to the upstream await when the configured key is
\* key: the gate's warning, and the error of a try block that raises
HttpLogBegin(key, route, gate, a, build) ==
    GateLog(route)
    \o (IF gate # NoHttp \/ route \in OpenRoutes \/ ApiKeyNotConfigured(key)
        THEN <<>>
        ELSE LET r == Endpoint(route, StrV(key), a, build)
             IN  IF r.raised THEN <<ErrorLog(route, r.msg)>> ELSE <<>>)

\* The handler method that request awaits ("" when none)
HttpAwaited(key, route, gate, a, build) ==
    IF gate # NoHttp \/ route \in OpenRoutes \/ ApiKeyNotConfigured(key)
    THEN ""
    ELSE LET r == Endpoint(route, StrV(key), a, build)
         IN  IF r.raised THEN "" ELSE r.op

\* What the end of the call logs: the error of a handler that raised
HttpLogEnd(route, out) ==
    IF out.state = "raised" THEN <<ErrorLog(route, out.msg)>> ELSE <<>>

\* Another value of a configured API key
TwinKey(key) ==
    CASE key = "" -> ""
      [] key = "key-A" -> "key-B"
      [] OTHER -> "key-A"

TwinConfig(cfg) == [cfg EXCEPT !.INTAKEQ_API_KEY = TwinKey(@)]

NoTwin(cfg) == [op |-> "", log |-> StartupLog(TwinConfig(cfg))]

NoSession == [opened |-> 0, open |-> 0]

\* async with aiohttp.ClientSession() as session: one more session is open
SessionEnter(ss) == [opened |-> ss.opened + 1, open |-> ss.open + 1]

\* A mutant of SessionExit: the session is closed when the handler returns,
\* and left open when it raises.
SessionExitOnReturn(ss, out) ==
    IF out.state = "returned" THEN [ss EXCEPT !.open = @ - 1] ELSE ss

\* The end of the "async with" block, left by a return or by an exception:
\* the session is closed
SessionExit(ss, out) == [ss EXCEPT !.open = @ - 1]

NoCall == [facade |-> "", name |-> "", api_key |-> None, arguments |-> EmptyDict]

\* The manager before its first use: nothing loaded, no logging handler
NoManager == [config |-> <<>>, root_handlers |-> FALSE]

\* No load and no access yet
NoHist == [loads |-> 0, accesses |-> 0, raised |-> 0, returned |-> {},
           reloaded |-> FALSE, load |-> <<>>]

\* No call in progress
CallInit ==
    /\ pc = "idle"
    /\ call = NoCall
    /\ op = ""
    /\ requests = <<>>
    /\ responses = <<>>
    /\ outcome = Pending
    /\ reply = <<>>
    /\ config \in Configs
    /\ credentials = None
    /\ http = NoHttp
    /\ session = NoSession
    /\ log = StartupLog(config)
    /\ twin = NoTwin(config)

\* How many handler calls may be in flight together
MaxCalls == 2

Slots == 1..MaxCalls

\* A slot with no call in it
NoSlot == [pc |-> "idle", name |-> "", api_key |-> None, arguments |-> EmptyDict,
           request |-> NoRequest, response |-> <<>>, outcome |-> Pending]

\* The handler objects as constructed: self.base_url = base_url
Constructed == [base_url |-> base_url]

\* The configuration manager is not used
ConfigUnused ==
    /\ env = EmptyDict
    /\ cm = NoManager
    /\ hist = NoHist

\* No concurrent calls are made
ConcurrentUnused ==
    /\ calls = [i \in Slots |-> NoSlot]
    /\ objects = Constructed

Init ==
    /\ CallInit
    /\ ConfigUnused
    /\ ConcurrentUnused

\* The call runs up to its first await: it raises, or its one request is sent.
Begin(facade, name, api_key, arguments, r) ==
    /\ call' = [facade |-> facade, name |-> name, api_key |-> api_key,
                arguments |-> arguments]
    /\ responses' = <<>>
    /\ IF r.raised
       THEN /\ pc' = "done"
            /\ op' = ""
            /\ requests' = <<>>
            /\ outcome' = Raised(r.exc, r.msg)
            /\ reply' = IF facade = "tool"
                        THEN handle_call_tool_text(name, Raised(r.exc, r.msg))
                        ELSE <<>>
            /\ http' = IF facade = "http"
                       THEN HttpResult(Raised(r.exc, r.msg))
                       ELSE NoHttp
            /\ UNCHANGED session
       ELSE /\ pc' = "awaiting"
            /\ op' = r.op
            /\ requests' = <<r.request>>
            /\ outcome' = Pending
            /\ reply' = <<>>
            /\ http' = NoHttp
            /\ session' = SessionEnter(session)
    /\ UNCHANGED config

\* handle_call_tool(name, arguments) up to the upstream await
ToolCall ==
    /\ UNCHANGED <<cfgvars, concvars>>
    /\ pc = "idle"
    /\ config.entry = "server"
    /\ credentials' = None
    /\ UNCHANGED <<log, twin>>
    /\ \E name \in ToolNames : \E arguments \in ToolArguments(name) :
          Begin("tool", name, Get(arguments, "api_key"), arguments,
                route_tool_call(name, arguments))

\* A handler method called directly (as the HTTP routes do)
HandlerCall ==
    /\ UNCHANGED <<cfgvars, concvars>>
    /\ pc = "idle"
    /\ config.entry = "handlers"
    /\ credentials' = None
    /\ UNCHANGED <<log, twin>>
    /\ \E o \in HandlerOps : \E api_key \in Credentials :
       \E args \in HandlerArguments(o) :
          Begin("handler", o, api_key, args, Handler(o, api_key, args))

\* The route answers without calling a handler: the 401 of the gate, the
\* 500 of the missing key, or the fixed 200 of "/" and "/health".
Respond(route, api_key, arguments, resp) ==
    /\ call' = [facade |-> "http", name |-> route, api_key |-> api_key,
                arguments |-> arguments]
    /\ pc' = "done"
    /\ op' = ""
    /\ requests' = <<>>
    /\ responses' = <<>>
    /\ outcome' = IF resp.status = 200
                  THEN Returned(<<"info", route>>)
                  ELSE Raised("HTTPException", resp.detail)
    /\ reply' = <<>>
    /\ http' = resp
    /\ UNCHANGED <<config, session>>

\* An HTTP request to a route of web_server.py, up to the upstream await
HttpCall ==
    /\ UNCHANGED <<cfgvars, concvars>>
    /\ pc = "idle"
    /\ config.entry = "web_server"
    /\ \E route \in HttpRoutes : \E creds \in BearerCredentials :
       \E arguments \in HttpArguments(route) : \E build \in Builds :
          LET api_key == StrV(config.INTAKEQ_API_KEY)
              gate == IF route \in GatedRoutes THEN verify_vapi_token(creds) ELSE NoHttp
              key2 == TwinKey(config.INTAKEQ_API_KEY)
          IN  /\ credentials' = creds
              /\ log' = log \o HttpLogBegin(config.INTAKEQ_API_KEY, route, gate,
                                            arguments, build)
              /\ twin' = [op |-> HttpAwaited(key2, route, gate, arguments, build),
                          log |-> twin.log
                                  \o HttpLogBegin(key2, route, gate, arguments, build)]
              /\ IF gate # NoHttp
                 THEN Respond(route, api_key, arguments, gate)
                 ELSE IF route \in OpenRoutes
                 THEN Respond(route, api_key, arguments, HttpResponse(200, <<>>))
                 ELSE IF ApiKeyNotConfigured(config.INTAKEQ_API_KEY)
                 THEN Respond(route, api_key, arguments,
                              HttpResponse(500, <<"IntakeQ API key not configured">>))
                 ELSE Begin("http", route, api_key, arguments,
                            Endpoint(route, api_key, arguments, build))

\* A mutant of RequestsAfter: a failed call sends its request once more.
RequestsAfterRetry(reqs, out) ==
    IF out.state = "raised" THEN Append(reqs, reqs[Len(reqs)]) ELSE reqs

\* The requests of the call once the handler has treated the response (or
\* the network failure): it returns or raises, and sends nothing more.
RequestsAfter(reqs, out) == reqs

Finish(out) ==
    /\ pc' = "done"
    /\ outcome' = out
    /\ reply' = IF call.facade = "tool"
                THEN handle_call_tool_text(call.name, out)
                ELSE <<>>
    /\ requests' = RequestsAfter(requests, out)
    /\ http' = IF call.facade = "http" THEN HttpResult(out) ELSE NoHttp
    /\ session' = SessionExit(session, out)
    /\ log' = IF call.facade = "http" THEN log \o HttpLogEnd(call.name, out) ELSE log
    /\ UNCHANGED <<call, op, config, credentials>>

\* The twin run gets the same answer from the upstream.
TwinFinish(out2) ==
    twin' = IF twin.op = "" THEN twin
            ELSE [twin EXCEPT !.log = @ \o HttpLogEnd(call.name, out2)]

\* The upstream answers the request, and the handler returns or raises.
UpstreamRespond ==
    /\ UNCHANGED <<cfgvars, concvars>>
    /\ pc = "awaiting"
    /\ \E status \in Statuses : \E body \in Bodies :
          /\ responses' = <<[status |-> status, body |-> body]>>
          /\ Finish(HandleResponse(op, status, body))
          /\ TwinFinish(IF twin.op = "" THEN Pending
                        ELSE HandleResponse(twin.op, status, body))

\* The request fails on the network: session.get/post/put/delete raises.
NetworkFailure ==
    /\ UNCHANGED <<cfgvars, concvars>>
    /\ pc = "awaiting"
    /\ responses' = <<>>
    /\ Finish(Raised("ClientConnectorError", <<"Cannot connect to host">>))
    /\ TwinFinish(Raised("ClientConnectorError", <<"Cannot connect to host">>))

\* The call is over; the next one starts from nothing.
Return ==
    /\ UNCHANGED <<cfgvars, concvars>>
    /\ pc = "done"
    /\ pc' = "idle"
    /\ call' = NoCall
    /\ op' = ""
    /\ requests' = <<>>
    /\ responses' = <<>>
    /\ outcome' = Pending
    /\ reply' = <<>>
    /\ credentials' = None
    /\ http' = NoHttp
    /\ session' = [session EXCEPT !.opened = 0]
    /\ log' = StartupLog(config)
    /\ twin' = NoTwin(config)
    /\ UNCHANGED config

Next == ToolCall \/ HandlerCall \/ HttpCall \/ UpstreamRespond \/ NetworkFailure \/ Return

Spec == Init /\ [][Next]_vars

(***************************************************************************)
(* The configuration manager: the environment changes, the configuration   *)
(* is accessed and reloaded.                                               *)
(***************************************************************************)
\* How many accesses follow a reload (or the start)
MaxAccesses == 3

EnvVars == DOMAIN env_mappings

\* The values the environment gives a variable
EnvValues(v) ==
    CASE v = "PORT" -> {"8080", "70000", "0", "abc"}
      [] v = "CACHE_TTL" -> {"60", "1.5"}
      [] v = "LOG_LEVEL" -> {"debug", "WARNING", "verbose"}
      [] OTHER -> {"%(message)s", "plain"}

\* The environments: some of the variables set, each to one of its values
Envs ==
    UNION {{e \in [vs -> UNION {EnvValues(v) : v \in EnvVars}] :
               \A v \in vs : e[v] \in EnvValues(v)} : vs \in SUBSET EnvVars}

InitConfig ==
    /\ CallInit
    /\ config = [entry |-> "server", VAPI_AUTH_TOKEN |-> "", INTAKEQ_API_KEY |-> ""]
    /\ env \in Envs
    /\ cm = NoManager
    /\ hist = NoHist
    /\ ConcurrentUnused

\* os.environ is changed from outside: a variable is set or unset
SetEnv ==
    /\ \E v \in EnvVars :
          \/ \E x \in EnvValues(v) : env' = DictSet(env, v, x)
          \/ v \in DOMAIN env /\ env' = DictDel(env, v)
    /\ UNCHANGED <<callvars, concvars, cm, hist>>

\* The manager after load_config has run with the result r
AfterLoad(r) ==
    IF r.raised
    THEN [config |-> <<>>, root_handlers |-> cm.root_handlers]
    ELSE [config |-> <<r.config>>, root_handlers |-> TRUE]

\* get_config() / ConfigManager.config: load if nothing is loaded, return it
GetConfig ==
    /\ hist.accesses < MaxAccesses
    /\ IF cm.config = <<>>
       THEN LET r == load_config(env, cm.root_handlers)
            IN  /\ cm' = AfterLoad(r)
                /\ hist' = [hist EXCEPT
                              !.loads = @ + 1,
                              !.accesses = @ + 1,
                              !.raised = IF r.raised THEN @ + 1 ELSE @,
                              !.returned = IF r.raised THEN @ ELSE @ \cup {r.config},
                              !.load = <<[env |-> env, result |-> r]>>]
       ELSE /\ cm' = cm
            /\ hist' = [hist EXCEPT !.accesses = @ + 1,
                                    !.returned = @ \cup {cm.config[1]}]
    /\ UNCHANGED <<callvars, concvars, env>>

\* ConfigManager.reload_config: self._config = None, then load_config
ReloadConfig ==
    /\ LET r == load_config(env, cm.root_handlers)
       IN  /\ cm' = AfterLoad(r)
           /\ hist' = [loads |-> 1, accesses |-> 0,
                       raised |-> IF r.raised THEN 1 ELSE 0,
                       returned |-> {}, reloaded |-> TRUE,
                       load |-> <<[env |-> env, result |-> r]>>]
    /\ UNCHANGED <<callvars, concvars, env>>

NextConfig == SetEnv \/ GetConfig \/ ReloadConfig

SpecConfig == InitConfig /\ [][NextConfig]_vars

(***************************************************************************)
(* Concurrent calls: handler calls interleaved at their upstream awaits,   *)
(* on the same handler objects.                                            *)
(***************************************************************************)
\* The calls made concurrently: handler operations with their arguments
ConcurrentCalls ==
    {[name |-> "get_appointment", arguments |-> Dict1("appointment_id", StrV("123"))],
     [name |-> "get_clients", arguments |-> Dict1("search", StrV("Jane Doe"))],
     [name |-> "cancel_appointment", arguments |-> Dict1("appointment_id", StrV("123"))],
     [name |-> "get_note_pdf", arguments |-> Dict1("note_id", StrV("99"))],
     [name |-> "update_appointment", arguments |-> Dict1("Id", StrV("123"))]}

ConcurrentStatuses == {200, 404}

ConcurrentBodies == {"[]", "not found"}

\* A mutant of ObjectsAfterCall: the method keeps the url of its request in
\* self.base_url.
ObjectsAfterCallKeepsUrl(objs, r) ==
    IF r.raised THEN objs ELSE [base_url |-> Text(r.request.url)]

\* The handler objects after a method has run up to its await: the methods
\* read self.base_url and assign no attribute
ObjectsAfterCall(objs, r) == objs

\* The request of a method called on the handler objects objs: its url
\* begins with their base_url
OnObjects(objs, r) ==
    IF r.raised THEN r
    ELSE [r EXCEPT !.request.url = <<objs.base_url>> \o Tail(@)]

InitConcurrent ==
    /\ CallInit
    /\ config = [entry |-> "handlers", VAPI_AUTH_TOKEN |-> "", INTAKEQ_API_KEY |-> ""]
    /\ ConfigUnused
    /\ ConcurrentUnused

\* A call starts in a free slot and runs up to its await (or raises)
StartCall(i) ==
    /\ calls[i].pc = "idle"
    /\ \E c \in ConcurrentCalls : \E api_key \in Credentials :
          LET r == OnObjects(objects, Handler(c.name, api_key, c.arguments))
          IN  /\ calls' = [calls EXCEPT ![i] =
                    [pc |-> IF r.raised THEN "done" ELSE "awaiting",
                     name |-> c.name, api_key |-> api_key, arguments |-> c.arguments,
                     request |-> r.request, response |-> <<>>,
                     outcome |-> IF r.raised THEN Raised(r.exc, r.msg) ELSE Pending]]
              /\ objects' = ObjectsAfterCall(objects, r)
    /\ UNCHANGED <<callvars, cfgvars>>

\* The upstream answers the request of the call in slot i
RespondCall(i) ==
    /\ calls[i].pc = "awaiting"
    /\ \E status \in ConcurrentStatuses : \E body \in ConcurrentBodies :
          calls' = [calls EXCEPT ![i] =
                       [@ EXCEPT !.pc = "done",
                                 !.response = <<[status |-> status, body |-> body]>>,
                                 !.outcome = HandleResponse(calls[i].name, status, body)]]
    /\ UNCHANGED <<callvars, cfgvars, objects>>

\* The request of the call in slot i fails on the network
FailCall(i) ==
    /\ calls[i].pc = "awaiting"
    /\ calls' = [calls EXCEPT ![i] =
                    [@ EXCEPT !.pc = "done",
                              !.outcome = Raised("ClientConnectorError",
                                                 <<"Cannot connect to host">>)]]
    /\ UNCHANGED <<callvars, cfgvars, objects>>

\* The call in slot i is over
EndCall(i) ==
    /\ calls[i].pc = "done"
    /\ calls' = [calls EXCEPT ![i] = NoSlot]
    /\ UNCHANGED <<callvars, cfgvars, objects>>

NextConcurrent ==
    \E i \in Slots : StartCall(i) \/ RespondCall(i) \/ FailCall(i) \/ EndCall(i)

SpecConcurrent == InitConcurrent /\ [][NextConcurrent]_vars

(***************************************************************************)
(* Properties                                                              *)
(***************************************************************************)
Range(seq) == {seq[i] : i \in 1..Len(seq)}

Started == pc \in {"awaiting", "done"}

\* The argument is absent, null or the empty string.
Empty(d, k) == k \notin DOMAIN d \/ d[k] \in {None, StrV("")}

\* The call's credential is a non-empty string.
HasCredential == ~Empty(call.arguments, "api_key") /\ call.arguments["api_key"][1] = "str"

\* The call failed, before any upstream request, with an error that reports
\* a missing argument.
MissingArgumentFailure ==
    /\ pc = "done"
    /\ requests = <<>>
    /\ outcome.state = "raised"
    /\ \/ outcome.exc = "ValueError"
          /\ outcome.msg[1] \in {"Missing required field: ", "Missing required fields: "}
       \/ outcome.exc \in {"KeyError", "TypeError"}

\* The required arguments a tool's schema lists, besides api_key
ToolRequiredKeys(name) == DOMAIN ToolRequired(name)

HandlerRequiredKeys(o) == Range(RequiredArgs(o))

\* The required arguments of the call in progress; of an HTTP call, the
\* fields of the JSON body that the handler validates.
CallRequiredKeys ==
    CASE call.facade = "tool" -> ToolRequiredKeys(call.name)
      [] call.facade = "http" ->
            IF call.name \in DataRoutes
            THEN HandlerRequiredKeys(RouteOp(call.name))
            ELSE {}
      [] OTHER -> HandlerRequiredKeys(call.name)

\* The HTTP request has the configured bearer token, or none is configured.
HttpAdmitted ==
    config.VAPI_AUTH_TOKEN = "" \/ credentials = StrV(config.VAPI_AUTH_TOKEN)

\* The call gets as far as its arguments: a handler call always, a tool call
\* when it has a credential and its name is routed, an HTTP call when its
\* route is a gated one, the request is admitted and the key is configured.
ReachesArguments ==
    /\ Started
    /\ call.facade = "tool" => HasCredential /\ call.name \in RoutedTools
    /\ call.facade = "http" =>
          /\ call.name \in GatedRoutes
          /\ HttpAdmitted
          /\ config.INTAKEQ_API_KEY # ""

\* C1: route_tool_call with api_key absent, null or "" fails with the
\* missing-credential error for every tool name, known or unknown, and
\* issues no upstream request.
C1_MissingCredential ==
    (Started /\ call.facade = "tool" /\ Empty(call.arguments, "api_key"))
        => /\ pc = "done"
           /\ outcome = Raised("ValueError", <<"API key is required">>)
           /\ requests = <<>>

\* C1 witness: an unrouted tool name called with an empty-string credential
\* ended with the credential error.
C1_Witness ==
    /\ pc = "done" /\ call.facade = "tool" /\ call.name = "no_such_tool"
    /\ "api_key" \in DOMAIN call.arguments /\ call.arguments["api_key"] = StrV("")
    /\ outcome.msg = <<"API key is required">>

\* C2: a call of an operation with required arguments that omits one of
\* them fails with a missing-argument error and issues no upstream request.
C2_MissingRequired ==
    (ReachesArguments /\ \E k \in CallRequiredKeys : k \notin DOMAIN call.arguments)
        => MissingArgumentFailure

\* C2 witness: create appointment called on the handler without ServiceId
\* has failed without a request.
C2_Witness ==
    /\ pc = "done" /\ call.facade = "handler" /\ call.name = "create_appointment"
    /\ "ServiceId" \notin DOMAIN call.arguments
    /\ outcome.state = "raised" /\ requests = <<>>

\* C3 (as claimed): a required argument present with the value None is
\* treated like an absent one: missing-argument error, no upstream request.
C3_NullRequired ==
    (ReachesArguments
     /\ \E k \in CallRequiredKeys : k \in DOMAIN call.arguments /\ call.arguments[k] = None)
        => MissingArgumentFailure

\* C4 (as claimed): when exactly one required argument is missing, the
\* error names that field and no other required field of the operation.
C4_NamesMissingField ==
    \A k \in CallRequiredKeys :
        (ReachesArguments /\ CallRequiredKeys \ DOMAIN call.arguments = {k})
            => /\ MissingArgumentFailure
               /\ k \in Range(outcome.msg)
               /\ \A j \in CallRequiredKeys \ {k} : j \notin Range(outcome.msg)
               /\ call.facade = "tool" => k \in Range(reply)

\* C5: route_tool_call with a non-empty credential and a name outside the
\* routed set fails with the unknown-operation error naming the tool, and
\* issues no upstream request.
C5_UnknownTool ==
    (Started /\ call.facade = "tool" /\ HasCredential /\ call.name \notin RoutedTools)
        => /\ pc = "done"
           /\ outcome = Raised("ValueError", <<"Unknown tool: ", call.name>>)
           /\ requests = <<>>

\* C5 witness: update_appointment, a handler operation without a tool, was
\* called with a credential and ended with the unknown-tool error.
C5_Witness ==
    /\ pc = "done" /\ call.facade = "tool" /\ call.name = "update_appointment"
    /\ HasCredential
    /\ outcome.msg = <<"Unknown tool: ", "update_appointment">>

\* The create operations
CreateOps == {"create_appointment", "create_or_update_client", "send_questionnaire"}

\* C6: for every handler operation, a response whose status is not a
\* success status (not 200, and not 201 for a create operation) is a failure
\* carrying the response's status and its body text unchanged, and a value
\* is returned only for status 200 or 201.
C6_UpstreamErrorCarried ==
    (pc = "done" /\ responses # <<>>)
        => LET r == responses[1]
               carried == /\ outcome.state = "raised"
                          /\ Len(outcome.msg) = 4
                          /\ outcome.msg[1] = "API Error: "
                          /\ outcome.msg[2] = StatusText(r.status)
                          /\ outcome.msg[4] = r.body
           IN  /\ r.status \notin {200, 201} => carried
               /\ (r.status = 201 /\ op \notin CreateOps) => carried
               /\ outcome.state = "returned" => r.status \in {200, 201}

\* C6 witness: get appointment answered 404 "not found" has raised the
\* error with 404 and "not found".
C6_Witness ==
    /\ pc = "done" /\ op = "get_appointment"
    /\ responses = <<[status |-> 404, body |-> "not found"]>>
    /\ outcome = Raised("Exception", <<"API Error: ", "404", " - ", "not found">>)

\* C7 (as claimed): every create operation returns the decoded body on 201
\* as on 200; every other operation returns a value only on 200.
C7_CreatedIsSuccess ==
    (pc = "done" /\ responses # <<>>)
        => LET r == responses[1]
           IN  /\ (op \in CreateOps /\ r.status \in {200, 201} /\ IsJson(r.body))
                    => outcome = Returned(<<"json", r.body>>)
               /\ (op \notin CreateOps /\ outcome.state = "returned")
                    => r.status = 200

\* The value a list operation sends for a supplied value: the value itself,
\* and for the boolean keys its lowercase text.
Reproduced(k, v) == IF k \in BoolKeys THEN StrV(Lower(Str(v))) ELSE v

\* C8 (as claimed): the query string of a list operation holds exactly the
\* recognized keys whose supplied value is not absent, null or "", each with
\* the supplied value, and a 200 response's decoded JSON is returned as is.
C8_ListQueryExact ==
    (Started /\ op \in ListOps /\ requests # <<>>)
        => LET q == requests[1].params
               a == call.arguments
           IN  /\ DOMAIN q = {k \in RecognizedKeys(op) : ~Empty(a, k)}
               /\ \A k \in DOMAIN q : k \in DOMAIN a /\ q[k] = Reproduced(k, a[k])
               /\ (pc = "done" /\ responses # <<>> /\ responses[1].status = 200
                   /\ IsJson(responses[1].body))
                    => outcome = Returned(<<"json", responses[1].body>>)

\* C9 (as claimed): an optional argument of a list operation supplied with a
\* concrete value, the integer 0 and the boolean false included, is in the
\* query string with that value.
C9_ConcreteValueSent ==
    \A k \in RecognizedKeys(op) :
        (Started /\ op \in ListOps /\ requests # <<>>
         /\ k \in DOMAIN call.arguments
         /\ call.arguments[k][1] \in {"int", "bool"})
            => /\ k \in DOMAIN requests[1].params
               /\ requests[1].params[k] = Reproduced(k, call.arguments[k])

\* The optional body fields the tools fill from optional arguments
ToolOptionalFields(name) ==
    CASE name = "send_questionnaire" ->
            {<<"client_id", "ClientId">>, <<"client_name", "ClientName">>,
             <<"client_email", "ClientEmail">>, <<"practitioner_id", "PractitionerId">>}
      [] name = "create_appointment" ->
            {<<"send_email_notification", "SendClientEmailNotification">>,
             <<"reminder_type", "ReminderType">>}
      [] OTHER -> {}

\* C10 (as claimed): in the tool-call facade an optional body field the
\* caller did not supply is absent from the outgoing JSON body.
C10_UnsuppliedFieldAbsent ==
    (Started /\ call.facade = "tool" /\ requests # <<>>)
        => \A f \in ToolOptionalFields(call.name) :
              f[1] \notin DOMAIN call.arguments => f[2] \notin DOMAIN requests[1].json

\* C11 (as claimed): a boolean query argument that is in the query string
\* has the value 'true' or 'false', whatever boolean, integer or string was
\* supplied.
C11_BooleanLiteral ==
    (Started /\ op \in ListOps /\ requests # <<>>)
        => \A k \in BoolKeys \cap DOMAIN requests[1].params :
              requests[1].params[k] \in {StrV("true"), StrV("false")}

\* The optional arguments the list tools declare in their input schemas
ToolSchemaOptional(name) ==
    CASE name = "get_appointments" ->
            {"client", "startDate", "endDate", "status", "practitionerEmail", "page"}
      [] name = "get_clients" -> {"search", "page", "includeProfile"}
      [] name = "get_invoices" -> {"client_id", "status", "startDate", "endDate"}
      [] name = "get_notes" -> {"client", "client_id", "status"}
      [] OTHER -> {}

\* The upstream's name of a tool argument
UpstreamKey(k) == IF k = "client_id" THEN "clientId" ELSE k

\* C13 (as claimed): an optional argument a list tool declares, supplied in
\* a tool call with a value that is not null, "", 0 or false, is in the
\* outgoing query string with that value.
C13_DeclaredOptionalSent ==
    \A k \in ToolSchemaOptional(call.name) :
        (Started /\ call.facade = "tool" /\ requests # <<>>
         /\ k \in DOMAIN call.arguments
         /\ call.arguments[k] \notin {None, StrV(""), IntV("0"), BoolV("False")})
            => \E q \in {k, UpstreamKey(k)} :
                  /\ q \in DOMAIN requests[1].params
                  /\ requests[1].params[q] = Reproduced(k, call.arguments[k])

\* The call's credential and required arguments are all there; for the two
\* HTTP routes that validate the body themselves, the appointment id (under
\* either name) or the tag is there and not empty.
PassesValidation ==
    /\ ReachesArguments
    /\ \A k \in CallRequiredKeys : k \in DOMAIN call.arguments
    /\ (call.facade = "http" /\ call.name = "cancel_appointment")
          => ~Empty(call.arguments, "appointment_id")
             \/ ~Empty(call.arguments, "AppointmentId")
    /\ (call.facade = "http" /\ call.name = "add_client_tag")
          => ~Empty(call.arguments, "tag")

\* C14: a call issues at most one upstream request: one when credential and
\* argument validation pass, none otherwise; after a failed response or a
\* network failure nothing more is sent and the failure is the call's outcome.
C14_AtMostOneRequest ==
    Started
        => /\ Len(requests) = IF PassesValidation THEN 1 ELSE 0
           /\ (pc = "done" /\ ~PassesValidation /\ call.name \notin OpenRoutes)
                => outcome.state = "raised"
           /\ (pc = "done" /\ call.facade = "http" /\ outcome.state = "raised")
                => http.status \in {401, 500}
           /\ (pc = "done" /\ PassesValidation /\ responses = <<>>)
                => outcome = Raised("ClientConnectorError", <<"Cannot connect to host">>)
           /\ (pc = "done" /\ responses # <<>> /\ responses[1].status \notin {200, 201})
                => outcome.state = "raised"

\* C14 witness: a call whose one request was answered 500 is over, failed,
\* with that one request.
C14_Witness ==
    /\ pc = "done" /\ Len(requests) = 1 /\ responses # <<>>
    /\ responses[1].status = 500 /\ outcome.state = "raised"

\* C15: a tool call that is over has exactly one outcome as its returned
\* text, the serialized payload or one error text naming the tool with the
\* failure's message; no failure leaves handle_call_tool as an exception.
C15_ToolCallRecovered ==
    (pc = "done" /\ call.facade = "tool")
        => /\ reply # <<>>
           /\ outcome.state \in {"returned", "raised"}
           /\ outcome.state = "returned" => reply = <<JsonDumps(outcome.value)>>
           /\ outcome.state = "raised"
                => reply = <<"Error calling tool ", call.name, ": ">> \o outcome.msg

\* C15 witness: a tool call answered 200 with a body that is not JSON has
\* ended with the error text.
C15_Witness ==
    /\ pc = "done" /\ call.facade = "tool" /\ outcome.exc = "JSONDecodeError"
    /\ reply = <<"Error calling tool ", call.name, ": ", "Expecting value">>

\* C18: cancel appointment (the handler, called directly or by the HTTP
\* route) without a reason (absent, null or "") posts to
\* /appointments/cancellation a body with AppointmentId only; with a reason
\* the body has Reason too; on 200 the fixed success value is returned
\* whatever the response body.
C18_CancelAppointment ==
    (Started /\ call.name = "cancel_appointment" /\ requests # <<>>)
        => LET r == requests[1]
               a == call.arguments
               h == call.facade = "handler"
               id == IF h \/ ~Empty(a, "appointment_id")
                     THEN a["appointment_id"] ELSE a["AppointmentId"]
               noreason == Empty(a, "reason") /\ (h \/ Empty(a, "Reason"))
               reason == IF ~Empty(a, "reason") THEN a["reason"] ELSE a["Reason"]
           IN  /\ r.method = "POST"
               /\ r.url = <<base_url, "/appointments/cancellation">>
               /\ r.hasJson
               /\ noreason => r.json = Dict1("AppointmentId", id)
               /\ ~noreason
                    => r.json = DictSet(Dict1("AppointmentId", id), "Reason", reason)
               /\ (pc = "done" /\ responses # <<>> /\ responses[1].status = 200)
                    => outcome = Returned(<<"fixed", "success",
                                            "Appointment canceled successfully">>)

\* C18 witness: cancel appointment "123" with a null reason, answered 200
\* with a body that is not JSON, returned the fixed value.
C18_Witness ==
    /\ pc = "done" /\ call.facade = "handler" /\ call.name = "cancel_appointment"
    /\ call.arguments = DictSet(Dict1("appointment_id", StrV("123")), "reason", None)
    /\ requests[1].json = Dict1("AppointmentId", StrV("123"))
    /\ responses = <<[status |-> 200, body |-> "not found"]>>
    /\ outcome.state = "returned"

PdfOps == {"get_note_pdf", "get_intake_pdf"}

\* C19: on 200 the two PDF operations return the raw body, whatever it is,
\* undecoded; every other operation that returns upstream data returns the
\* decoded JSON body.
C19_PdfRaw ==
    (pc = "done" /\ responses # <<>>)
        => LET r == responses[1]
           IN  /\ (op \in PdfOps /\ r.status = 200)
                    => outcome = Returned(<<"bytes", r.body>>)
               /\ (op \notin PdfOps /\ outcome.state = "returned"
                   /\ outcome.value[1] # "fixed")
                    => IsJson(r.body) /\ outcome = Returned(<<"json", r.body>>)

\* C19 witness: get note pdf answered 200 "%PDF-1.4" returned those bytes.
C19_Witness ==
    /\ pc = "done" /\ op = "get_note_pdf"
    /\ responses = <<[status |-> 200, body |-> "%PDF-1.4"]>>
    /\ outcome = Returned(<<"bytes", "%PDF-1.4">>)

\* C20: every request carries X-Auth-Key with the call's credential, and
\* Content-Type: application/json exactly when it has a JSON body, which is
\* exactly for POST and PUT.
C20_Headers ==
    (Started /\ requests # <<>>)
        => LET r == requests[1]
           IN  /\ "X-Auth-Key" \in DOMAIN r.headers
               /\ r.headers["X-Auth-Key"] = call.api_key
               /\ r.hasJson <=> r.method \in {"POST", "PUT"}
               /\ "Content-Type" \in DOMAIN r.headers <=> r.hasJson
               /\ r.hasJson => r.headers["Content-Type"] = StrV("application/json")
               /\ DOMAIN r.headers \subseteq {"X-Auth-Key", "Content-Type"}

\* C20 witness: add client tag, called with the credential key-B, has sent a
\* POST with that key and the JSON content type.
C20_Witness ==
    /\ pc = "awaiting" /\ op = "add_client_tag" /\ call.api_key = StrV("key-B")
    /\ requests[1].method = "POST"
    /\ requests[1].headers["X-Auth-Key"] = StrV("key-B")
    /\ "Content-Type" \in DOMAIN requests[1].headers

\* What a call does up to its upstream await, as a function of its
\* arguments: the request it sends, or the exception it raises
CallStep(facade, name, api_key, arguments) ==
    CASE facade = "tool" -> route_tool_call(name, arguments)
      [] facade = "http" -> Endpoint(name, api_key, arguments, "str")
      [] OTHER -> Handler(name, api_key, arguments)

\* C12 (as claimed): an argument name the operation does not recognize,
\* added to the arguments, leaves the outgoing request (method, path, query
\* string, JSON body) the same as without it.
C12_UnrecognizedIgnored ==
    (ReachesArguments /\ "extra" \in DOMAIN call.arguments)
        => LET without == CallStep(call.facade, call.name, call.api_key,
                                   DictDel(call.arguments, "extra"))
           IN  IF requests = <<>>
               THEN without.raised
               ELSE ~without.raised /\ requests[1] = without.request

\* C16 (as claimed): with a bearer token configured, every route but
\* /health answers 401 to a request whose bearer credential is missing or
\* is not the configured token, and sends nothing upstream.
C16_AllButHealthGated ==
    (Started /\ call.facade = "http" /\ config.VAPI_AUTH_TOKEN # ""
     /\ call.name # "health_check"
     /\ credentials # StrV(config.VAPI_AUTH_TOKEN))
        => /\ pc = "done"
           /\ http.status = 401
           /\ requests = <<>>

C26_BadRequest ==
    (pc = "done" /\ ReachesArguments /\ call.facade = "http")
        => /\ (call.name = "cancel_appointment"
               /\ "appointment_id" \notin DOMAIN call.arguments
               /\ "AppointmentId" \notin DOMAIN call.arguments)
                => /\ http = HttpResponse(400, <<"appointment_id is required">>)
                   /\ requests = <<>>
           /\ (call.name = "add_client_tag" /\ "tag" \notin DOMAIN call.arguments)
                => /\ http = HttpResponse(400, <<"tag is required">>)
                   /\ requests = <<>>

\* C28: with a token configured, a request to a gated route with a missing
\* or wrong token is answered 401 by the gate, with or without an IntakeQ
\* API key configured, whatever its body, and goes no further; with no
\* token configured the gate admits every request: none is answered 401.
C28_GateFirst ==
    (Started /\ call.facade = "http" /\ call.name \in GatedRoutes)
        => /\ (config.VAPI_AUTH_TOKEN # "" /\ credentials = None)
                => /\ pc = "done" /\ requests = <<>>
                   /\ http = HttpResponse(401, <<"Authorization header missing">>)
           /\ (config.VAPI_AUTH_TOKEN # "" /\ credentials # None
               /\ credentials # StrV(config.VAPI_AUTH_TOKEN))
                => /\ pc = "done" /\ requests = <<>>
                   /\ http = HttpResponse(401, <<"Invalid authentication token">>)
           /\ config.VAPI_AUTH_TOKEN = ""
                => /\ http.status # 401
                   /\ config.INTAKEQ_API_KEY # "" => op # "" \/ outcome.state = "raised"
                   /\ (pc = "done" /\ config.INTAKEQ_API_KEY = "")
                        => http.detail = <<"IntakeQ API key not configured">>

\* C28 witness: with a token and no key configured, POST /appointments/cancel
\* with a wrong token and a body without an appointment id was answered 401.
C28_Witness ==
    /\ pc = "done" /\ call.facade = "http" /\ call.name = "cancel_appointment"
    /\ config.VAPI_AUTH_TOKEN = "tok-1" /\ config.INTAKEQ_API_KEY = ""
    /\ credentials = StrV("tok-2")
    /\ "appointment_id" \notin DOMAIN call.arguments
    /\ http = HttpResponse(401, <<"Invalid authentication token">>)

\* C29: the tools handle_list_tools advertises are the tools route_tool_call
\* routes: called with a credential, an advertised tool never fails with
\* 'Unknown tool', and a tool name that is not advertised always does.
C29_AdvertisedAreRouted ==
    (Started /\ call.facade = "tool" /\ HasCredential)
        => LET unknown == /\ pc = "done"
                          /\ outcome = Raised("ValueError",
                                              <<"Unknown tool: ", call.name>>)
           IN  /\ call.name \in AdvertisedTools => ~unknown
               /\ call.name \notin AdvertisedTools => unknown

\* C29 witness: the advertised tool get_booking_settings, called with a
\* credential, has sent its request.
C29_Witness ==
    /\ pc = "awaiting" /\ call.facade = "tool"
    /\ call.name = "get_booking_settings" /\ call.name \in AdvertisedTools
    /\ HasCredential /\ Len(requests) = 1

\* C30: in a tool call the credential is in the outgoing request as the
\* X-Auth-Key header only: api_key is no key of the query string or of the
\* JSON body, and no value of them is the credential.
C30_CredentialHeaderOnly ==
    (Started /\ call.facade = "tool" /\ requests # <<>>)
        => LET r == requests[1]
           IN  /\ r.headers["X-Auth-Key"] = call.arguments["api_key"]
               /\ "api_key" \notin DOMAIN r.params \cup DOMAIN r.json
               /\ \A k \in DOMAIN r.params : r.params[k] # call.arguments["api_key"]
               /\ \A k \in DOMAIN r.json : r.json[k] # call.arguments["api_key"]

\* C30 witness: get_appointments called with api_key and a client name has
\* sent a query string with the client name only.
C30_Witness ==
    /\ pc = "awaiting" /\ call.facade = "tool" /\ call.name = "get_appointments"
    /\ call.arguments =
          DictSet(Dict1("api_key", StrV("key-A")), "client", StrV("Jane Doe"))
    /\ requests[1].params = Dict1("client", StrV("Jane Doe"))

\* The texts handle_call_tool returns for a payload
SuccessTexts == {JsonDumps(<<"json", b>>) : b \in {x \in Bodies : IsJson(x)}}

\* The messages of the failures of a tool call
ErrorMessages ==
    {"API key is required", "Cannot connect to host", "Expecting value"}
    \cup {"Unknown tool: " \o n : n \in ToolNames}
    \cup {"API Error: " \o StatusText(st) \o " - " \o b : st \in Statuses, b \in Bodies}

\* The texts handle_call_tool returns for a failure
ErrorTexts ==
    {"Error calling tool " \o n \o ": " \o m : n \in ToolNames, m \in ErrorMessages}

\* C27: the text a tool call returns for a failure is the text of no
\* successful result, and the text it returns for a result is the text of no
\* failure, for every tool name, message and payload (a payload that is
\* itself the string of an error text included).
C27_FailureDistinct ==
    (pc = "done" /\ call.facade = "tool")
        => /\ outcome.state = "raised" => Text(reply) \notin SuccessTexts
           /\ outcome.state = "returned"
                => Text(reply) \in SuccessTexts /\ Text(reply) \notin ErrorTexts
           /\ SuccessTexts \cap ErrorTexts = {}

\* C27 witness: get_note answered 200 with the JSON string of an error text
\* has returned that string between quotes, while the text of that error is
\* one a failed call returns.
C27_Witness ==
    /\ pc = "done" /\ call.facade = "tool" /\ call.name = "get_note"
    /\ responses = <<[status |-> 200, body |-> ErrorLikeBody]>>
    /\ outcome.state = "returned" /\ reply = <<ErrorLikeBody>>
    /\ "Error calling tool get_note: Cannot connect to host" \in ErrorTexts

\* C22: a handler call that reaches the network opens exactly one session,
\* which is open while the call awaits the upstream and closed when the call
\* has returned or raised, whatever the response; a call that does not reach
\* the network opens none; between calls no session is open.
C22_SessionClosed ==
    /\ pc = "idle" => session = NoSession
    /\ pc = "awaiting" => session = [opened |-> 1, open |-> 1]
    /\ pc = "done" => /\ session.open = 0
                      /\ session.opened = Len(requests)
                      /\ session.opened = IF op = "" THEN 0 ELSE 1

\* C22 witness: a call answered 200 with a body that is not JSON has raised
\* while decoding it, and its one session is closed.
C22_Witness ==
    /\ pc = "done" /\ outcome.exc = "JSONDecodeError"
    /\ responses # <<>> /\ responses[1].status = 200
    /\ session = [opened |-> 1, open |-> 0]

\* C23: the run of the HTTP facade with another non-empty API key, the
\* same requests and the same upstream responses has logged the same
\* messages.
C23_LogIndependentOfKey ==
    (config.entry = "web_server" /\ config.INTAKEQ_API_KEY # "")
        => /\ TwinKey(config.INTAKEQ_API_KEY) \notin {"", config.INTAKEQ_API_KEY}
           /\ log = twin.log
           /\ pc = "awaiting" => twin.op = op

\* C23 witness: with key-A configured, GET /notes/{note_id} answered 404 has
\* logged the error, and so has the run with key-B.
C23_Witness ==
    /\ pc = "done" /\ call.facade = "http" /\ call.name = "get_note"
    /\ config.INTAKEQ_API_KEY = "key-A"
    /\ responses = <<[status |-> 404, body |-> "not found"]>>
    /\ log[Len(log)] = <<"Error getting note: ", "API Error: ", "404", " - ", "not found">>
    /\ twin.log = log

\* C24 (as claimed): load_config does not fail; an integer setting whose
\* value is no integer has its default, a port outside 1..65535 is 8000, a
\* log level outside the five names is INFO.
C24_SafeFallback ==
    hist.load # <<>>
        => LET e == hist.load[1].env
               r == hist.load[1].result
               c == r.config
               has(v, xs) == v \in DOMAIN e /\ e[v] \in xs
           IN  /\ ~r.raised
               /\ has("PORT", {"abc"}) => c.port = 8000
               /\ has("CACHE_TTL", {"1.5"}) => c.cache_ttl = 300
               /\ has("PORT", {"70000", "0"}) => c.port = 8000
               /\ has("LOG_LEVEL", {"verbose"}) => c.log_level = "INFO"

\* C25 (as claimed): since the last reload (or the start) load_config has
\* run at most once, every access has returned a value and the same one;
\* after a reload it has run exactly once, and the accesses return what
\* that load produced.
C25_LoadedOnce ==
    /\ hist.loads <= 1
    /\ hist.raised = 0
    /\ Cardinality(hist.returned) <= 1
    /\ hist.accesses > 0 => Cardinality(hist.returned) = 1
    /\ hist.reloaded
         => /\ hist.loads = 1
            /\ hist.returned \subseteq {hist.load[1].result.config}

\* C21: in every interleaving of concurrent handler calls, each call's
\* request is the one its own credential and arguments give (on the base_url
\* the handler objects were constructed with) and its outcome is the one its
\* own response gives; the handler objects' base_url is never modified.
C21_CallsIndependent ==
    /\ objects = Constructed
    /\ \A i \in Slots :
          LET c == calls[i]
              own == Handler(c.name, c.api_key, c.arguments)
          IN  c.pc # "idle"
                => /\ own.raised <=> (c.pc = "done" /\ c.request = NoRequest)
                   /\ own.raised => c.outcome = Raised(own.exc, own.msg)
                   /\ ~own.raised
                        => /\ c.request = own.request
                           /\ c.request.headers["X-Auth-Key"] = c.api_key
                           /\ c.pc = "awaiting" => c.outcome = Pending
                           /\ (c.pc = "done" /\ c.response = <<>>)
                                => c.outcome.exc = "ClientConnectorError"
                           /\ (c.pc = "done" /\ c.response # <<>>)
                                => c.outcome = HandleResponse(c.name,
                                                              c.response[1].status,
                                                              c.response[1].body)

\* C21 witness: two calls of the same operation with different credentials
\* were in flight together; the first has got 404 and raised, the second has
\* got 200 and returned, each with its own credential in its request.
C21_Witness ==
    /\ calls[1].pc = "done" /\ calls[2].pc = "done"
    /\ calls[1].name = "get_appointment" /\ calls[2].name = "get_appointment"
    /\ calls[1].api_key = StrV("key-A") /\ calls[2].api_key = StrV("key-B")
    /\ calls[1].request.headers["X-Auth-Key"] = StrV("key-A")
    /\ calls[2].request.headers["X-Auth-Key"] = StrV("key-B")
    /\ calls[1].response = <<[status |-> 404, body |-> "not found"]>>
    /\ calls[2].response = <<[status |-> 200, body |-> "[]"]>>
    /\ calls[1].outcome.state = "raised" /\ calls[2].outcome = Returned(<<"json", "[]">>)

====
